---- MODULE Spec2Model ----
(***************************************************************************)
(* A model of src/reader/record_twomemory.py: the feature builder          *)
(* (Examples_To_Features_Converter.__call__ with its span chunker,         *)
(* max-context resolution and concept-row padding), the answer span        *)
(* projector (_improve_answer_span), the batch assembler and epoch wrapper *)
(* (DataProcessor.data_generator) and the prediction decoder               *)
(* (write_predictions).                                                    *)
(*                                                                         *)
(* Positions are 0-based as in the Python source; TLA+ sequences are       *)
(* 1-based, so element i of a Python list l is l[i + 1] here.              *)
(***************************************************************************)
EXTENDS Integers, Sequences, FiniteSets, TLC

\* ------------------------------------------------------------- bounds
MaxDocLen == 3
MaxQueryToks == 1
MaxSeqLen == 6
MaxStride == 2
MaxConceptLen == 2
MaxPieces == 2
MaxProjDocLen == 3
MaxAnswerToks == 2
MaxFeatures == 3
MaxFeatLen == 4
MaxBatchSize == 10
MaxDevCount == 2
MaxEpochs == 2
MaxNBest == 2
MaxAnswerLength == 2
MaxLogit == 2
MaxThreshold == 1
MaxPredLen == 2
MaxOrigLen == 4
MaxPassageLen == 3
MaxAnswerChars == 2
MaxQas == 2

\* The chunking loop does not end for some settings; the model stops it here.
MaxSpans == MaxDocLen + 1

\* ------------------------------------------------------------- program constants
\* unique_id = 1000000000
UniqueIdSeed == 1000000000
\* score = min(left, right) + 0.01 * length, held exactly as 100 * min + length
ScoreScale == 100
\* a feature holds at least [CLS], [SEP] and [SEP]
MinFeatLen == 3
\* Python's None
None == "None"

\* score_null = 1000000  # large and positive
ScoreNullInit == 1000000

VARIABLES
    pc,
    \* Examples_To_Features_Converter.__call__
    max_seq_length, doc_stride, max_query_length,
    max_wn_concept_length, max_nell_concept_length,
    query_tokens, query_wn_concepts, query_nell_concepts,
    all_doc_tokens, tok_to_orig_index, doc_wn_concepts, doc_nell_concepts,
    max_tokens_for_doc, start_offset, doc_spans, doc_span_index,
    unique_id, features,
    \* _improve_answer_span
    doc_tokens, input_start, input_end, answer_tokens, improved_span,
    \* DataProcessor.data_generator: batch_reader and wrapper
    seq_lens, batch_size, in_tokens, dev_count, epoch, epoch_index,
    index, batch, total_token_num, max_len, reader_done, yielded,
    all_dev_batches, release_index, emitted, released,
    \* write_predictions, for one example
    version_2_with_negative, n_best_size, max_answer_length,
    null_score_diff_threshold, candidates, example_doc_tokens, example_features,
    feature_index, result, null_logits, prelim_predictions,
    score_null, min_null_feature_index, null_start_logit, null_end_logit,
    nbest, seen_predictions, best_non_null_entry, prediction, raised,
    \* get_final_text
    pred_text, orig_text, do_lower_case, output_text,
    \* the training labels of __call__ and its invocations
    is_training, is_impossible, tok_start_position, tok_end_position, invocation, emitted_ids,
    \* _check_is_max_context, for one position
    context_spans, context_position, best_score, best_span_index,
    \* read_record_examples, for one passage
    read_is_training, read_version_2_with_negative, passage_text, qas, paragraph_text, passage_doc_tokens, char_to_word_offset, qa_index, examples, read_error

featVars ==
    <<max_seq_length, doc_stride, max_query_length,
      max_wn_concept_length, max_nell_concept_length,
      query_tokens, query_wn_concepts, query_nell_concepts,
      all_doc_tokens, tok_to_orig_index, doc_wn_concepts, doc_nell_concepts,
      max_tokens_for_doc, start_offset, doc_spans, doc_span_index,
      unique_id, features>>

impVars == <<doc_tokens, input_start, input_end, answer_tokens, improved_span>>

readerVars == <<index, batch, total_token_num, max_len, reader_done, yielded>>

batchInputs == <<seq_lens, batch_size, in_tokens, dev_count, epoch>>

batchVars ==
    <<batchInputs, epoch_index, readerVars, all_dev_batches, release_index,
      emitted, released>>

decInputs ==
    <<version_2_with_negative, n_best_size, max_answer_length,
      null_score_diff_threshold, candidates, example_doc_tokens,
      example_features>>

nullVars ==
    <<score_null, min_null_feature_index, null_start_logit, null_end_logit>>

decVars ==
    <<decInputs, feature_index, result, null_logits, prelim_predictions, nullVars,
      nbest, seen_predictions, best_non_null_entry, prediction, raised>>

textVars == <<pred_text, orig_text, do_lower_case, output_text>>

labelVars ==
    <<is_training, is_impossible, tok_start_position, tok_end_position,
      invocation, emitted_ids>>

contextVars == <<context_spans, context_position, best_score, best_span_index>>

readVars ==
    <<read_is_training, read_version_2_with_negative, passage_text, qas,
      paragraph_text, passage_doc_tokens, char_to_word_offset, qa_index,
      examples, read_error>>

vars == <<pc, featVars, impVars, batchVars, decVars, textVars, labelVars, contextVars, readVars>>

\* what the feature builder leaves alone
notFeatVars == <<impVars, batchVars, decVars, textVars, labelVars, contextVars, readVars>>

\* what the answer span projector leaves alone
notImpVars == <<featVars, batchVars, decVars, textVars, labelVars, contextVars, readVars>>

\* what the batch assembler and the epoch wrapper leave alone
notBatchVars == <<featVars, impVars, decVars, textVars, labelVars, contextVars, readVars>>

\* what the prediction decoder leaves alone
notDecVars == <<featVars, impVars, batchVars, textVars, labelVars, contextVars, readVars>>

\* what get_final_text leaves alone
notTextVars == <<featVars, impVars, batchVars, decVars, labelVars, contextVars, readVars>>

\* what the feature builder in training leaves alone
notTrainVars == <<impVars, batchVars, decVars, textVars, contextVars, readVars>>

\* what _check_is_max_context leaves alone
notContextVars == <<featVars, impVars, batchVars, decVars, textVars, labelVars, readVars>>

\* what read_record_examples leaves alone
notReadVars == <<featVars, impVars, batchVars, decVars, textVars, labelVars, contextVars>>

\* ------------------------------------------------------------- helpers
Min(a, b) == IF a < b THEN a ELSE b

Max(a, b) == IF a > b THEN a ELSE b

\* Python l[0:n] of a list l
Prefix(l, n) == IF n <= 0 THEN <<>> ELSE SubSeq(l, 1, Min(n, Len(l)))

\* Python [0] * n (empty when n <= 0)
Zeros(n) == [i \in 1..Max(n, 0) |-> 0]

\* a looked-up concept id list of n distinct non-zero ids
RawConcepts(n) == [i \in 1..n |-> i]

\* ------------------------------------------------------------- span chunker
\* length of the span starting at start_offset
SpanLength(doc_len, offset, max_tokens) ==
    IF doc_len - offset > max_tokens THEN max_tokens ELSE doc_len - offset

NextOffsetNoMin(offset, length, stride) == offset + stride

\* start_offset += min(length, doc_stride)
NextOffset(offset, length, stride) == offset + Min(length, stride)

\* ------------------------------------------------------------- max context
SpanEnd(doc_span) == doc_span.start + doc_span.length - 1

InSpan(doc_span, position) ==
    position >= doc_span.start /\ position <= SpanEnd(doc_span)

\* min(num_left_context, num_right_context) + 0.01 * doc_span.length, times 100
ContextScore(doc_span, position) ==
    ScoreScale * Min(position - doc_span.start, SpanEnd(doc_span) - position)
        + doc_span.length

RECURSIVE BestSpan(_, _, _, _)
\* the loop of lines 549-561 from span_index on; best is <<>> while best_score
\* is None, and <<best_score, best_span_index>> after
BestSpan(spans, position, span_index, best) ==
    IF span_index >= Len(spans) THEN best
    ELSE LET doc_span == spans[span_index + 1]
         IN  IF position < doc_span.start \/ position > SpanEnd(doc_span)
             THEN BestSpan(spans, position, span_index + 1, best)
             ELSE LET score == ContextScore(doc_span, position)
                  IN  IF best = <<>> \/ score > best[1]
                      THEN BestSpan(spans, position, span_index + 1,
                                    <<score, span_index>>)
                      ELSE BestSpan(spans, position, span_index + 1, best)

\* every span that reaches the best score owns the position
check_is_max_context_ties(spans, cur_span_index, position) ==
    LET best == BestSpan(spans, position, 0, <<>>)
    IN  /\ best # <<>>
        /\ InSpan(spans[cur_span_index + 1], position)
        /\ ContextScore(spans[cur_span_index + 1], position) = best[1]

\* return cur_span_index == best_span_index
check_is_max_context(spans, cur_span_index, position) ==
    LET best == BestSpan(spans, position, 0, <<>>)
    IN  best # <<>> /\ cur_span_index = best[2]

\* ------------------------------------------------------------- concept rows
PadRowNoTruncate(concept_id, max_concept_length) ==
    concept_id \o Zeros(max_concept_length - Len(concept_id))

\* concept_id + [0] * (max - len(concept_id)), then [:max]
PadRow(concept_id, max_concept_length) ==
    Prefix(concept_id \o Zeros(max_concept_length - Len(concept_id)),
           max_concept_length)

PadRows(concept_ids, max_concept_length) ==
    [i \in 1..Len(concept_ids) |-> PadRow(concept_ids[i], max_concept_length)]

\* ------------------------------------------------------------- feature builder
CLS == "[CLS]"

SEP == "[SEP]"

\* the document slice of a span: positions start .. start + length - 1
SpanSlice(l, doc_span) ==
    [i \in 1..Max(doc_span.length, 0) |-> l[doc_span.start + i]]

\* the zip over query tokens and their concept rows stops at the shortest
QueryLen == Min(Len(query_tokens),
                Min(Len(query_wn_concepts), Len(query_nell_concepts)))

BuildTokens(doc_span) ==
    <<CLS>> \o Prefix(query_tokens, QueryLen) \o <<SEP>>
        \o SpanSlice(all_doc_tokens, doc_span) \o <<SEP>>

BuildSegmentIdsNoLastSep(doc_span) ==
    [i \in 1..(QueryLen + 2) |-> 0]
        \o [i \in 1..Max(doc_span.length, 0) |-> 1]

BuildSegmentIds(doc_span) ==
    [i \in 1..(QueryLen + 2) |-> 0]
        \o [i \in 1..(Max(doc_span.length, 0) + 1) |-> 1]

BuildConceptRows(query_concepts, doc_concepts, doc_span) ==
    <<<<>>>> \o Prefix(query_concepts, QueryLen) \o <<<<>>>>
        \o SpanSlice(doc_concepts, doc_span) \o <<<<>>>>

\* tokenizer.convert_tokens_to_ids: the vocabulary id of each token, in order
convert_tokens_to_ids(tokens) == [i \in 1..Len(tokens) |-> <<"id", tokens[i]>>]

\* feature-local positions of the document slice: len(tokens) when each is added
DocPositions(doc_span) ==
    {QueryLen + 2 + i : i \in 0..(doc_span.length - 1)}

BuildFeatureRecord(span_index) ==
    LET doc_span == doc_spans[span_index + 1]
        tokens == BuildTokens(doc_span)
    IN  [unique_id |-> unique_id,
         doc_span_index |-> span_index,
         tokens |-> tokens,
         token_to_orig_map |->
             [p \in DocPositions(doc_span) |->
                 tok_to_orig_index[doc_span.start + (p - QueryLen - 2) + 1]],
         token_is_max_context |->
             [p \in DocPositions(doc_span) |->
                 check_is_max_context(doc_spans, span_index,
                                      doc_span.start + (p - QueryLen - 2))],
         input_ids |-> convert_tokens_to_ids(tokens),
         input_mask |-> [i \in 1..Len(convert_tokens_to_ids(tokens)) |-> 1],
         segment_ids |-> BuildSegmentIds(doc_span),
         wn_concept_ids |->
             PadRows(BuildConceptRows(query_wn_concepts, doc_wn_concepts, doc_span),
                     max_wn_concept_length),
         nell_concept_ids |->
             PadRows(BuildConceptRows(query_nell_concepts, doc_nell_concepts,
                                      doc_span),
                     max_nell_concept_length)]

\* the other components at rest
IdleText ==
    /\ pred_text = <<>>
    /\ orig_text = <<>>
    /\ do_lower_case = FALSE
    /\ output_text = <<>>

IdleLabel ==
    /\ is_training = FALSE
    /\ is_impossible = FALSE
    /\ tok_start_position = None
    /\ tok_end_position = None
    /\ invocation = 0
    /\ emitted_ids = <<>>

IdleContext ==
    /\ context_spans = <<>>
    /\ context_position = 0
    /\ best_score = None
    /\ best_span_index = None

IdleRead ==
    /\ read_is_training = FALSE
    /\ read_version_2_with_negative = FALSE
    /\ passage_text = <<>>
    /\ qas = <<>>
    /\ paragraph_text = <<>>
    /\ passage_doc_tokens = <<>>
    /\ char_to_word_offset = <<>>
    /\ qa_index = 0
    /\ examples = <<>>
    /\ read_error = ""

IdleImp ==
    /\ doc_tokens = <<>>
    /\ input_start = 0
    /\ input_end = 0
    /\ answer_tokens = <<>>
    /\ improved_span = <<>>

IdleDec ==
    /\ version_2_with_negative = FALSE
    /\ n_best_size = 0
    /\ max_answer_length = 0
    /\ null_score_diff_threshold = 0
    /\ candidates = <<>>
    /\ example_doc_tokens = <<>>
    /\ example_features = <<>>
    /\ feature_index = 0
    /\ result = <<>>
    /\ null_logits = <<>>
    /\ prelim_predictions = <<>>
    /\ score_null = ScoreNullInit
    /\ min_null_feature_index = 0
    /\ null_start_logit = 0
    /\ null_end_logit = 0
    /\ nbest = <<>>
    /\ seen_predictions = {}
    /\ best_non_null_entry = <<>>
    /\ prediction = <<>>
    /\ raised = ""

IdleBatch ==
    /\ seq_lens = <<>>
    /\ batch_size = 0
    /\ in_tokens = FALSE
    /\ dev_count = 0
    /\ epoch = 0
    /\ epoch_index = 0
    /\ index = 0
    /\ batch = <<>>
    /\ total_token_num = 0
    /\ max_len = 0
    /\ reader_done = FALSE
    /\ yielded = <<>>
    /\ all_dev_batches = <<>>
    /\ release_index = 0
    /\ emitted = <<>>
    /\ released = <<>>

IdleFeat ==
    /\ max_seq_length = 0
    /\ doc_stride = 0
    /\ max_query_length = 0
    /\ max_wn_concept_length = 0
    /\ max_nell_concept_length = 0
    /\ query_tokens = <<>>
    /\ query_wn_concepts = <<>>
    /\ query_nell_concepts = <<>>
    /\ all_doc_tokens = <<>>
    /\ tok_to_orig_index = <<>>
    /\ doc_wn_concepts = <<>>
    /\ doc_nell_concepts = <<>>
    /\ max_tokens_for_doc = 0
    /\ start_offset = 0
    /\ doc_spans = <<>>
    /\ doc_span_index = 0
    /\ unique_id = UniqueIdSeed
    /\ features = <<>>

\* inputs of one call: one example's tokenized query and document, the looked-up
\* concept lists, and the configuration
QueryToken(i) == <<"q", i>>

DocToken(i) == <<"d", i>>

\* the looked-up list of token i (0-based) has (seed + i) mod (MaxConceptLen + 2)
\* entries, so that lists empty, shorter than, equal to and longer than a table's
\* maximum all occur; the two tables and the query use different seeds
ConceptList(seed, i) == RawConcepts((seed + i) % (MaxConceptLen + 2))

InitFeat ==
    /\ IdleImp
    /\ IdleBatch
    /\ IdleDec
    /\ IdleText
    /\ IdleLabel
    /\ IdleContext
    /\ IdleRead
    /\ pc = "start"
    /\ max_seq_length \in 2..MaxSeqLen
    /\ doc_stride \in 0..MaxStride
    /\ max_query_length \in 0..MaxQueryToks
    /\ max_wn_concept_length \in 0..MaxConceptLen
    /\ max_nell_concept_length \in 0..MaxConceptLen
    /\ \E n \in 0..MaxQueryToks, seed \in 0..(MaxConceptLen + 1) :
          /\ query_tokens = [i \in 1..n |-> QueryToken(i - 1)]
          /\ query_wn_concepts = [i \in 1..n |-> ConceptList(seed + 2, i - 1)]
          /\ query_nell_concepts = [i \in 1..n |-> ConceptList(seed + 3, i - 1)]
          /\ \E len \in 0..MaxDocLen, pieces \in 1..MaxPieces :
                /\ all_doc_tokens = [i \in 1..len |-> DocToken(i - 1)]
                /\ tok_to_orig_index = [i \in 1..len |-> (i - 1) \div pieces]
                /\ doc_wn_concepts = [i \in 1..len |-> ConceptList(seed, i - 1)]
                /\ doc_nell_concepts = [i \in 1..len |-> ConceptList(seed + 1, i - 1)]
    /\ max_tokens_for_doc = 0
    /\ start_offset = 0
    /\ doc_spans = <<>>
    /\ doc_span_index = 0
    /\ unique_id = UniqueIdSeed
    /\ features = <<>>

\* lines 287-290 and 335-343: truncate the query, compute the token budget
Prepare ==
    /\ UNCHANGED notFeatVars
    /\ pc = "start"
    /\ query_tokens' = IF Len(query_tokens) > max_query_length
                       THEN Prefix(query_tokens, max_query_length)
                       ELSE query_tokens
    /\ query_wn_concepts' = IF Len(query_tokens) > max_query_length
                            THEN Prefix(query_wn_concepts, max_query_length)
                            ELSE query_wn_concepts
    /\ query_nell_concepts' = IF Len(query_tokens) > max_query_length
                              THEN Prefix(query_nell_concepts, max_query_length)
                              ELSE query_nell_concepts
    /\ max_tokens_for_doc' = max_seq_length - Len(query_tokens') - 3
    /\ start_offset' = 0
    /\ doc_spans' = <<>>
    /\ pc' = "chunk"
    /\ UNCHANGED <<max_seq_length, doc_stride, max_query_length,
                   max_wn_concept_length, max_nell_concept_length,
                   all_doc_tokens, tok_to_orig_index, doc_wn_concepts,
                   doc_nell_concepts, doc_span_index, unique_id, features>>

\* one iteration of the while loop of lines 344-351
ChunkStep ==
    /\ UNCHANGED notFeatVars
    /\ pc = "chunk"
    /\ start_offset < Len(all_doc_tokens)
    /\ Len(doc_spans) < MaxSpans
    /\ LET length == SpanLength(Len(all_doc_tokens), start_offset,
                                max_tokens_for_doc)
       IN  /\ doc_spans' = Append(doc_spans,
                                  [start |-> start_offset, length |-> length])
           /\ IF start_offset + length = Len(all_doc_tokens)
              THEN /\ pc' = "build"
                   /\ doc_span_index' = 0
                   /\ UNCHANGED start_offset
              ELSE /\ start_offset' = NextOffset(start_offset, length, doc_stride)
                   /\ UNCHANGED <<pc, doc_span_index>>
    /\ UNCHANGED <<max_seq_length, doc_stride, max_query_length,
                   max_wn_concept_length, max_nell_concept_length,
                   query_tokens, query_wn_concepts, query_nell_concepts,
                   all_doc_tokens, tok_to_orig_index, doc_wn_concepts,
                   doc_nell_concepts, max_tokens_for_doc, unique_id, features>>

\* the while condition fails: no span is left to make
ChunkExit ==
    /\ UNCHANGED notFeatVars
    /\ pc = "chunk"
    /\ ~(start_offset < Len(all_doc_tokens))
    /\ pc' = "build"
    /\ doc_span_index' = 0
    /\ UNCHANGED <<max_seq_length, doc_stride, max_query_length,
                   max_wn_concept_length, max_nell_concept_length,
                   query_tokens, query_wn_concepts, query_nell_concepts,
                   all_doc_tokens, tok_to_orig_index, doc_wn_concepts,
                   doc_nell_concepts, max_tokens_for_doc, start_offset,
                   doc_spans, unique_id, features>>

\* one iteration of the loop of lines 353-488: the feature of the next span
BuildFeature ==
    /\ UNCHANGED notFeatVars
    /\ pc = "build"
    /\ doc_span_index < Len(doc_spans)
    /\ features' = Append(features, BuildFeatureRecord(doc_span_index))
    /\ unique_id' = unique_id + 1
    /\ doc_span_index' = doc_span_index + 1
    /\ UNCHANGED <<pc, max_seq_length, doc_stride, max_query_length,
                   max_wn_concept_length, max_nell_concept_length,
                   query_tokens, query_wn_concepts, query_nell_concepts,
                   all_doc_tokens, tok_to_orig_index, doc_wn_concepts,
                   doc_nell_concepts, max_tokens_for_doc, start_offset,
                   doc_spans>>

\* the spans are exhausted: the feature sequence of this example ends
BuildDone ==
    /\ UNCHANGED notFeatVars
    /\ pc = "build"
    /\ doc_span_index = Len(doc_spans)
    /\ pc' = "feat_done"
    /\ UNCHANGED featVars

NextFeat == Prepare \/ ChunkStep \/ ChunkExit \/ BuildFeature \/ BuildDone

SpecFeat == InitFeat /\ [][NextFeat]_vars

\* a loop that can take its next turn takes it
SpecFeatFair == SpecFeat /\ WF_vars(NextFeat)

\* ------------------------------------------------------------- answer span projector
\* a token is a non-empty sequence of characters without a space
TokA == <<"a">>

TokB == <<"b">>

TokAB == <<"a", "b">>

Vocabulary == {TokA, TokB, TokAB}

RECURSIVE Join(_)
\* " ".join(tokens)
Join(tokens) ==
    IF Len(tokens) = 0 THEN <<>>
    ELSE IF Len(tokens) = 1 THEN tokens[1]
    ELSE tokens[1] \o <<" ">> \o Join(Tail(tokens))

\* Python l[a:b + 1] for 0 <= a, b < len(l)
Slice(l, a, b) == IF a > b THEN <<>> ELSE SubSeq(l, a + 1, b + 1)

RECURSIVE ScanEnd(_, _, _, _)
\* for new_end in range(input_end, new_start - 1, -1), from new_end on
ScanEnd(tokens, new_start, new_end, tok_answer_text) ==
    IF new_end < new_start THEN <<>>
    ELSE IF Join(Slice(tokens, new_start, new_end)) = tok_answer_text
         THEN <<new_start, new_end>>
         ELSE ScanEnd(tokens, new_start, new_end - 1, tok_answer_text)

RECURSIVE ScanStart(_, _, _, _)
\* for new_start in range(input_start, input_end + 1), from new_start on
ScanStart(tokens, new_start, last, tok_answer_text) ==
    IF new_start > last THEN <<>>
    ELSE LET found == ScanEnd(tokens, new_start, last, tok_answer_text)
         IN  IF found # <<>> THEN found
             ELSE ScanStart(tokens, new_start + 1, last, tok_answer_text)

RECURSIVE ScanStartDown(_, _, _, _, _)
\* the starts tried from input_end down to input_start
ScanStartDown(tokens, first, new_start, last, tok_answer_text) ==
    IF new_start < first THEN <<>>
    ELSE LET found == ScanEnd(tokens, new_start, last, tok_answer_text)
         IN  IF found # <<>> THEN found
             ELSE ScanStartDown(tokens, first, new_start - 1, last,
                                tok_answer_text)

improve_answer_span_last(tokens, first, last, answer) ==
    LET found == ScanStartDown(tokens, first, last, last, Join(answer))
    IN  IF found # <<>> THEN found ELSE <<first, last>>

improve_answer_span(tokens, first, last, answer) ==
    LET found == ScanStart(tokens, first, last, Join(answer))
    IN  IF found # <<>> THEN found ELSE <<first, last>>

SeqsUpTo(S, n) == UNION {[1..k -> S] : k \in 0..n}

InitImprove ==
    /\ IdleFeat
    /\ IdleBatch
    /\ IdleDec
    /\ IdleText
    /\ IdleLabel
    /\ IdleContext
    /\ IdleRead
    /\ pc = "improve"
    /\ doc_tokens \in SeqsUpTo(Vocabulary, MaxProjDocLen) \ {<<>>}
    /\ input_start \in 0..(Len(doc_tokens) - 1)
    /\ input_end \in 0..(Len(doc_tokens) - 1)
    /\ answer_tokens \in SeqsUpTo(Vocabulary, MaxAnswerToks)
    /\ improved_span = <<>>

\* the call of lines 330-332
ImproveAnswerSpan ==
    /\ UNCHANGED notImpVars
    /\ pc = "improve"
    /\ improved_span' = improve_answer_span(doc_tokens, input_start, input_end,
                                            answer_tokens)
    /\ pc' = "improved"
    /\ UNCHANGED <<doc_tokens, input_start, input_end, answer_tokens>>

NextImprove == ImproveAnswerSpan

SpecImprove == InitImprove /\ [][NextImprove]_vars

\* ------------------------------------------------------------- batch assembler
\* a feature is named by its index in the epoch's feature sequence; its seq_len
\* is len(feature.input_ids)
SeqLen(feature) == seq_lens[feature + 1]

ToAppendNoPlusOne(tokens_mode, count, running_max, size) ==
    IF tokens_mode THEN count * running_max <= size ELSE count < size

\* lines 669-672
ToAppend(tokens_mode, count, running_max, size) ==
    IF tokens_mode THEN (count + 1) * running_max <= size ELSE count < size

RestartEmpty(feature) == <<>>

\* line 679: batch = [example]
RestartBatch(feature) == <<feature>>

InitBatch ==
    /\ IdleFeat
    /\ IdleImp
    /\ IdleDec
    /\ IdleText
    /\ IdleLabel
    /\ IdleContext
    /\ IdleRead
    /\ pc = "epoch"
    /\ seq_lens \in SeqsUpTo(MinFeatLen..MaxFeatLen, MaxFeatures)
    /\ batch_size \in 1..MaxBatchSize
    /\ in_tokens \in BOOLEAN
    /\ dev_count \in 1..MaxDevCount
    /\ epoch \in 1..MaxEpochs
    /\ epoch_index = 0
    /\ index = 0
    /\ batch = <<>>
    /\ total_token_num = 0
    /\ max_len = 0
    /\ reader_done = FALSE
    /\ yielded = <<>>
    /\ all_dev_batches = <<>>
    /\ release_index = 0
    /\ emitted = <<>>
    /\ released = <<>>

\* lines 694-709: an epoch begins: a fresh feature sequence, a fresh batch_reader
\* and an empty all_dev_batches
EpochStart ==
    /\ UNCHANGED notBatchVars
    /\ pc = "epoch"
    /\ epoch_index < epoch
    /\ index' = 0
    /\ batch' = <<>>
    /\ total_token_num' = 0
    /\ max_len' = 0
    /\ reader_done' = FALSE
    /\ yielded' = <<>>
    /\ all_dev_batches' = <<>>
    /\ release_index' = 0
    /\ emitted' = <<>>
    /\ released' = <<>>
    /\ pc' = "read"
    /\ UNCHANGED <<batchInputs, epoch_index>>

\* lines 658-679: batch_reader takes the next feature
ReaderStep ==
    /\ UNCHANGED notBatchVars
    /\ pc = "read"
    /\ ~reader_done
    /\ index < Len(seq_lens)
    /\ LET seq_len == SeqLen(index)
           running_max == Max(max_len, seq_len)
       IN  IF ToAppend(in_tokens, Len(batch), running_max, batch_size)
           THEN /\ batch' = Append(batch, index)
                /\ total_token_num' = total_token_num + seq_len
                /\ max_len' = running_max
                /\ UNCHANGED <<pc, yielded, emitted>>
           ELSE /\ yielded' = <<batch, total_token_num>>
                /\ emitted' = Append(emitted, <<batch, total_token_num>>)
                /\ batch' = RestartBatch(index)
                /\ total_token_num' = seq_len
                /\ max_len' = seq_len
                /\ pc' = "wrap"
    /\ index' = index + 1
    /\ UNCHANGED <<batchInputs, epoch_index, reader_done, all_dev_batches,
                   release_index, released>>

\* lines 680-681: the features are exhausted: flush the pending batch, if any
ReaderFlush ==
    /\ UNCHANGED notBatchVars
    /\ pc = "read"
    /\ ~reader_done
    /\ index = Len(seq_lens)
    /\ reader_done' = TRUE
    /\ IF batch # <<>>
       THEN /\ yielded' = <<batch, total_token_num>>
            /\ emitted' = Append(emitted, <<batch, total_token_num>>)
            /\ pc' = "wrap"
       ELSE UNCHANGED <<pc, yielded, emitted>>
    /\ UNCHANGED <<batchInputs, epoch_index, index, batch, total_token_num,
                   max_len, all_dev_batches, release_index, released>>

ReleaseReadyAny(buffered, count) == Len(buffered) >= 1

\* line 723: if len(all_dev_batches) == dev_count
ReleaseReady(buffered, count) == Len(buffered) = count

\* lines 710-723: the wrapper takes the batch batch_reader yielded
WrapperTake ==
    /\ UNCHANGED notBatchVars
    /\ pc = "wrap"
    /\ LET buffered == IF Len(all_dev_batches) < dev_count
                       THEN Append(all_dev_batches, yielded)
                       ELSE all_dev_batches
       IN  /\ all_dev_batches' = buffered
           /\ IF ReleaseReady(buffered, dev_count)
              THEN pc' = "release" /\ release_index' = 0
              ELSE pc' = "read" /\ UNCHANGED release_index
    /\ yielded' = <<>>
    /\ UNCHANGED <<batchInputs, epoch_index, index, batch, total_token_num,
                   max_len, reader_done, emitted, released>>

\* lines 724-726: the buffered batches are yielded one by one, then the buffer
\* is emptied
Release ==
    /\ UNCHANGED notBatchVars
    /\ pc = "release"
    /\ IF release_index < Len(all_dev_batches)
       THEN /\ released' = Append(released, all_dev_batches[release_index + 1])
            /\ release_index' = release_index + 1
            /\ UNCHANGED <<pc, all_dev_batches>>
       ELSE /\ all_dev_batches' = <<>>
            /\ pc' = "read"
            /\ UNCHANGED <<released, release_index>>
    /\ UNCHANGED <<batchInputs, epoch_index, readerVars, emitted>>

\* batch_reader has ended: the epoch's for loop ends
EpochEnd ==
    /\ UNCHANGED notBatchVars
    /\ pc = "read"
    /\ reader_done
    /\ epoch_index' = epoch_index + 1
    /\ pc' = "epoch"
    /\ UNCHANGED <<batchInputs, readerVars, all_dev_batches, release_index,
                   emitted, released>>

\* range(epoch) is exhausted: the generator ends
WrapperEnd ==
    /\ UNCHANGED notBatchVars
    /\ pc = "epoch"
    /\ epoch_index = epoch
    /\ pc' = "batch_done"
    /\ UNCHANGED batchVars

NextBatch ==
    \/ EpochStart
    \/ ReaderStep
    \/ ReaderFlush
    \/ WrapperTake
    \/ Release
    \/ EpochEnd
    \/ WrapperEnd

SpecBatch == InitBatch /\ [][NextBatch]_vars

\* ------------------------------------------------------------- claims: feature builder
ChunkingDone == pc \in {"build", "feat_done"}

ChunkInputsValid ==
    /\ Len(all_doc_tokens) >= 1
    /\ max_tokens_for_doc >= 1
    /\ doc_stride >= 1

\* C1: for a non-empty document, max_tokens_for_doc >= 1 and doc_stride >= 1, the
\* doc spans produced start at offset 0, have strictly increasing starts, each
\* next span starts at or before the previous span's end + 1, every token index
\* lies in at least one span, and the last span ends at the last token index.
C1_SpanCoverage ==
    (ChunkingDone /\ ChunkInputsValid) =>
        /\ Len(doc_spans) >= 1
        /\ doc_spans[1].start = 0
        /\ \A i \in 1..(Len(doc_spans) - 1) :
              /\ doc_spans[i].start < doc_spans[i + 1].start
              /\ doc_spans[i + 1].start <= SpanEnd(doc_spans[i]) + 1
        /\ \A p \in 0..(Len(all_doc_tokens) - 1) :
              \E i \in 1..Len(doc_spans) : InSpan(doc_spans[i], p)
        /\ SpanEnd(doc_spans[Len(doc_spans)]) = Len(all_doc_tokens) - 1

\* several overlapping spans
C1_Witness ==
    /\ ChunkingDone
    /\ ChunkInputsValid
    /\ Len(doc_spans) >= 2
    /\ doc_spans[2].start <= SpanEnd(doc_spans[1])

\* the emitted features that flag document position p as max-context owner
Owners(p) ==
    {k \in 1..Len(features) :
        LET doc_span == doc_spans[features[k].doc_span_index + 1]
            local == p - doc_span.start + QueryLen + 2
        IN  /\ InSpan(doc_span, p)
            /\ local \in DOMAIN features[k].token_is_max_context
            /\ features[k].token_is_max_context[local]}

\* C2: once every span's feature is built, each document position is flagged
\* max-context owner in exactly one of the spans that contain it.
C2_OneOwner ==
    pc = "feat_done" =>
        \A p \in 0..(Len(all_doc_tokens) - 1) : Cardinality(Owners(p)) = 1

\* a position held by two spans with equal scores
C2_Witness ==
    /\ pc = "feat_done"
    /\ \E p \in 0..(Len(all_doc_tokens) - 1) :
          \E i, j \in 1..Len(doc_spans) :
              /\ i < j
              /\ InSpan(doc_spans[i], p)
              /\ InSpan(doc_spans[j], p)
              /\ ContextScore(doc_spans[i], p) = ContextScore(doc_spans[j], p)

\* what a row of width max made from a looked-up list must be
ExpectedRow(raw, max_concept_length) ==
    [j \in 1..max_concept_length |-> IF j <= Len(raw) THEN raw[j] ELSE 0]

RowsAsExpected(rows, raw_rows, max_concept_length) ==
    /\ Len(rows) = Len(raw_rows)
    /\ \A i \in 1..Len(rows) :
          /\ Len(rows[i]) = max_concept_length
          /\ rows[i] = ExpectedRow(raw_rows[i], max_concept_length)

\* C3: every row of wn_concept_ids has length max_wn_concept_length and every
\* row of nell_concept_ids has length max_nell_concept_length, for structural,
\* query and document tokens; a shorter list is right-padded with 0 and a longer
\* one cut to its first entries.
C3_RowWidth ==
    \A k \in 1..Len(features) :
        LET f == features[k]
            doc_span == doc_spans[f.doc_span_index + 1]
        IN  /\ Len(f.wn_concept_ids) = Len(f.tokens)
            /\ Len(f.nell_concept_ids) = Len(f.tokens)
            /\ RowsAsExpected(f.wn_concept_ids,
                              BuildConceptRows(query_wn_concepts, doc_wn_concepts,
                                               doc_span),
                              max_wn_concept_length)
            /\ RowsAsExpected(f.nell_concept_ids,
                              BuildConceptRows(query_nell_concepts,
                                               doc_nell_concepts, doc_span),
                              max_nell_concept_length)

\* one feature whose looked-up lists are empty, shorter than, equal to and longer
\* than the maximum, on query and document tokens
C3_Witness ==
    \E k \in 1..Len(features) :
        LET doc_span == doc_spans[features[k].doc_span_index + 1]
            raw == BuildConceptRows(query_wn_concepts, doc_wn_concepts, doc_span)
            nell == BuildConceptRows(query_nell_concepts, doc_nell_concepts,
                                     doc_span)
        IN  /\ QueryLen >= 1
            /\ Len(raw[2]) > 0
            /\ \E i \in 1..Len(raw) : Len(raw[i]) > max_wn_concept_length
            /\ \E i \in 1..Len(raw) :
                  Len(raw[i]) > 0 /\ Len(raw[i]) < max_wn_concept_length
            /\ \E i \in 1..Len(raw) :
                  Len(raw[i]) > 0 /\ Len(raw[i]) = max_wn_concept_length
            /\ \E i \in 1..Len(nell) : Len(nell[i]) > max_nell_concept_length


\* C25: every emitted feature has tokens [CLS], the query tokens (at most
\* max_query_length of them), [SEP], the slice of its document span, [SEP], so
\* query_length + doc_span.length + 3 tokens and at most max_seq_length;
\* segment_ids, input_ids, input_mask and both concept matrices are as long as
\* tokens; the segment id is 0 on the first query_length + 2 positions and 1 on
\* the rest; token_to_orig_map and token_is_max_context have as keys exactly
\* the positions query_length + 2 .. query_length + 1 + doc_span.length.
C25_FeatureShape ==
    \A k \in 1..Len(features) :
        LET feature == features[k]
            doc_span == doc_spans[feature.doc_span_index + 1]
            query_length == Len(query_tokens)
            doc_positions ==
                (query_length + 2)..(query_length + 1 + doc_span.length)
        IN  /\ query_length <= max_query_length
            /\ feature.tokens
                   = <<CLS>> \o query_tokens \o <<SEP>>
                         \o SubSeq(all_doc_tokens, doc_span.start + 1,
                                   doc_span.start + doc_span.length)
                         \o <<SEP>>
            /\ Len(feature.tokens) = query_length + doc_span.length + 3
            /\ Len(feature.tokens) <= max_seq_length
            /\ Len(feature.segment_ids) = Len(feature.tokens)
            /\ Len(feature.input_ids) = Len(feature.tokens)
            /\ Len(feature.input_mask) = Len(feature.tokens)
            /\ Len(feature.wn_concept_ids) = Len(feature.tokens)
            /\ Len(feature.nell_concept_ids) = Len(feature.tokens)
            /\ \A i \in 1..Len(feature.segment_ids) :
                   feature.segment_ids[i]
                       = (IF i - 1 < query_length + 2 THEN 0 ELSE 1)
            /\ DOMAIN feature.token_to_orig_map = doc_positions
            /\ DOMAIN feature.token_is_max_context = doc_positions

\* a query of one token and two spans, the first filling max_seq_length
C25_Witness ==
    /\ pc = "feat_done"
    /\ Len(features) >= 2
    /\ max_query_length = 1
    /\ Len(query_tokens) = 1
    /\ Len(features[1].tokens) = max_seq_length
    /\ Len(features[2].tokens) < max_seq_length
\* ------------------------------------------------------------- claims: answer span projector
\* the pairs inside the coarse span whose joined text is the joined answer
Matches ==
    {m \in (input_start..input_end) \X (input_start..input_end) :
        /\ m[1] <= m[2]
        /\ Join(Slice(doc_tokens, m[1], m[2])) = Join(answer_tokens)}

\* m comes before n: new_start ascending, then new_end descending
Before(m, n) == m[1] < n[1] \/ (m[1] = n[1] /\ m[2] > n[2])

\* C4: _improve_answer_span returns the first pair, new_start ascending and for
\* each new_start new_end descending, inside the coarse span whose space-joined
\* tokens equal the space-joined answer tokens, and the coarse span unchanged
\* when no pair matches.
C4_FirstMatch ==
    pc = "improved" =>
        IF Matches = {}
        THEN improved_span = <<input_start, input_end>>
        ELSE /\ improved_span \in Matches
             /\ \A m \in Matches : m = improved_span \/ Before(improved_span, m)

\* the answer occurs twice in the coarse span and the span is narrowed
C4_Witness ==
    /\ pc = "improved"
    /\ Cardinality(Matches) >= 2
    /\ improved_span # <<input_start, input_end>>
    /\ Len(answer_tokens) = 1

\* ------------------------------------------------------------- claims: batch assembler
RECURSIVE SumLens(_)
SumLens(b) == IF b = <<>> THEN 0 ELSE SeqLen(b[1]) + SumLens(Tail(b))

RECURSIVE Concat(_)
\* the batches of a sequence of (batch, total_token_count) pairs, joined in order
Concat(pairs) == IF pairs = <<>> THEN <<>> ELSE pairs[1][1] \o Concat(Tail(pairs))

\* the longest sequence length among the pending batch and the candidate
RunningMaxLength(pending, candidate) ==
    LET lens == {SeqLen(pending[i]) : i \in 1..Len(pending)} \cup {SeqLen(candidate)}
    IN  CHOOSE m \in lens : \A x \in lens : x <= m

\* C5: in token-budget mode the next feature joins the pending batch if and only
\* if (current_count + 1) * running_max_length <= batch_size, the running maximum
\* taken over the pending batch and the feature; otherwise the pending batch is
\* flushed and a new batch holding just that feature begins.
C5_AdmissionRule ==
    [][(pc = "read" /\ in_tokens /\ index' = index + 1) =>
          IF (Len(batch) + 1) * RunningMaxLength(batch, index) <= batch_size
          THEN /\ batch' = Append(batch, index)
               /\ emitted' = emitted
          ELSE /\ emitted' = Append(emitted, <<batch, total_token_num>>)
               /\ batch' = <<index>>]_vars

\* batch_size 10 and lengths [4, 4, 3]: two features flushed, the third pending
C5_Witness ==
    /\ pc = "wrap"
    /\ in_tokens
    /\ batch_size = 10
    /\ seq_lens = <<4, 4, 3>>
    /\ emitted = << <<<<0, 1>>, 8>> >>
    /\ batch = <<2>>

BatchRunning == pc \in {"epoch", "read", "wrap", "release", "batch_done"}

\* C6: the batches emitted by batch_reader, joined in emission order and followed
\* by the pending batch, are the features read so far in their order; when the
\* input has ended the pending batch has been flushed and the emitted batches are
\* the whole input; each emitted count is the sum of its batch's lengths.
C6_NothingLost ==
    BatchRunning =>
        /\ Concat(emitted) \o (IF reader_done THEN <<>> ELSE batch)
               = [i \in 1..index |-> i - 1]
        /\ reader_done => index = Len(seq_lens)
        /\ \A k \in 1..Len(emitted) : emitted[k][2] = SumLens(emitted[k][1])

\* an epoch read to its end in which a feature was rejected and the last batch
\* was flushed partly filled
C6_Witness ==
    /\ pc = "epoch"
    /\ reader_done
    /\ Len(seq_lens) = MaxFeatures
    /\ Len(emitted) >= 2
    /\ ~in_tokens
    /\ Len(emitted[Len(emitted)][1]) < batch_size

\* how often batch b occurs in a sequence of batches
Count(b, batches) == Cardinality({k \in 1..Len(batches) : batches[k] = b})

EpochOver == pc = "epoch" /\ epoch_index >= 1

\* C7: when an epoch is over, every batch the batch assembler produced in it has
\* been released by the wrapper exactly once.
C7_AllReleased ==
    EpochOver =>
        \A k \in 1..Len(emitted) : Count(emitted[k], released) = 1


\* the batches released before the release in progress, if any
ReleasedInGroups ==
    Len(released) - (IF pc = "release" THEN release_index ELSE 0)

\* C16: the wrapper releases batches only in groups of exactly dev_count: between
\* releases the buffer holds fewer than dev_count batches and the number of
\* batches released so far in the epoch is a multiple of dev_count; a release
\* starts with dev_count buffered batches and emits them one after the other in
\* the order batch_reader produced them, then empties the buffer; every epoch
\* starts with an empty buffer.
C16_LockstepRelease ==
    /\ [](BatchRunning =>
            /\ ReleasedInGroups % dev_count = 0
            /\ pc # "release" => Len(all_dev_batches) < dev_count
            /\ pc = "release" =>
                   /\ Len(all_dev_batches) = dev_count
                   /\ release_index <= dev_count
                   /\ SubSeq(released, ReleasedInGroups + 1, Len(released))
                          = Prefix(all_dev_batches, release_index)
            /\ released = Prefix(emitted, Len(released))
            /\ all_dev_batches
                   = SubSeq(emitted, ReleasedInGroups + 1,
                            ReleasedInGroups + Len(all_dev_batches)))
    /\ [][/\ (pc = "epoch" /\ pc' = "read") => all_dev_batches' = <<>>
          /\ (pc = "release" /\ pc' = "read") =>
                 /\ all_dev_batches' = <<>>
                 /\ Len(released) = ReleasedInGroups + dev_count
          /\ released' # released => pc = "release" \/ released' = <<>>]_vars

\* two consumer slots, one group of two batches released and a third batch
\* waiting in the buffer
C16_Witness ==
    /\ pc = "read"
    /\ dev_count = 2
    /\ Len(released) = 2
    /\ Len(all_dev_batches) = 1
    /\ reader_done

\* the longest sequence length in a batch, 0 for an empty batch
MaxLenOf(b) ==
    IF b = <<>> THEN 0
    ELSE CHOOSE m \in {SeqLen(b[i]) : i \in 1..Len(b)} :
             \A i \in 1..Len(b) : SeqLen(b[i]) <= m

\* C23: every batch batch_reader emits keeps the configured bound: at most
\* batch_size features in count-bounded mode, and (number of features) * (longest
\* sequence length in the batch) <= batch_size in token-budget mode.
C23_BatchWithinBound ==
    BatchRunning =>
        \A k \in 1..Len(emitted) :
            LET b == emitted[k][1]
            IN  IF in_tokens
                THEN Len(b) * MaxLenOf(b) <= batch_size
                ELSE Len(b) <= batch_size

\* C24: every (batch, total_token_count) pair batch_reader emits holds at least
\* one feature.
C24_NoEmptyBatch ==
    BatchRunning => \A k \in 1..Len(emitted) : emitted[k][1] # <<>>
\* ------------------------------------------------------------- prediction decoder
\* A text is the sequence of its words: "" is <<>>, and " ".join is one to one
\* on words that hold no blank.
EmptyText == <<>>

\* text="empty" of the nonce prediction
PlaceholderText == <<"empty">>

RECURSIVE ChunkSpans(_, _, _, _)
\* the spans of a document of doc_len word pieces, from start_offset on
ChunkSpans(doc_len, offset, max_tokens, stride) ==
    IF offset >= doc_len THEN <<>>
    ELSE LET length == SpanLength(doc_len, offset, max_tokens)
             doc_span == [start |-> offset, length |-> length]
         IN  IF offset + length = doc_len THEN <<doc_span>>
             ELSE <<doc_span>>
                      \o ChunkSpans(doc_len, NextOffset(offset, length, stride),
                                    max_tokens, stride)

\* the feature of one span of an example whose question is empty and whose
\* words are one word piece each
ExampleFeature(words, spans, span_index) ==
    LET doc_span == spans[span_index + 1]
        positions == {2 + i : i \in 0..(doc_span.length - 1)}
    IN  [tokens |-> <<CLS, SEP>> \o SpanSlice(words, doc_span) \o <<SEP>>,
         token_to_orig_map |->
             [p \in positions |-> doc_span.start + (p - 2)],
         token_is_max_context |->
             [p \in positions |->
                 check_is_max_context(spans, span_index,
                                      doc_span.start + (p - 2))]]

ExampleFeatures(words, spans) ==
    [k \in 1..Len(spans) |-> ExampleFeature(words, spans, k - 1)]

\* the examples decoded: an empty passage, one span, two overlapping spans,
\* two spans of different lengths
ExampleShapes ==
    {[words |-> <<>>, max_tokens |-> 2, stride |-> 1],
     [words |-> <<"x", "x">>, max_tokens |-> 2, stride |-> 1],
     [words |-> <<"x", "y", "x">>, max_tokens |-> 2, stride |-> 1],
     [words |-> <<"x", "y", "x">>, max_tokens |-> 2, stride |-> 2]}

\* the candidate lists of an example
CandidateLists == {<<>>, << <<"x">> >>, << <<"y">> >>}

\* logits are padded to the longest feature of the example
ResultLen(feats) ==
    IF feats = <<>> THEN 0
    ELSE CHOOSE n \in {Len(feats[k].tokens) : k \in 1..Len(feats)} :
             \A k \in 1..Len(feats) : Len(feats[k].tokens) <= n

\* how many positions of a logit array are above zero: two for the example of
\* one feature, one for the examples of two
PeaksFor(feats) == IF Len(feats) <= 1 THEN 2 ELSE 1

\* a logit is nothing, low or high
LogitValues == {0, 1, MaxLogit}

LogitArrays(len, peaks) ==
    {a \in [1..len -> LogitValues] :
        Cardinality({i \in 1..len : a[i] # 0}) <= peaks}

RECURSIVE BestIndexes(_, _, _)
\* the first n indexes of sorted(enumerate(logits), key score, reverse=True);
\* the sort is stable, so of equal scores the lower index comes first
BestIndexes(logits, n, taken) ==
    IF Len(taken) >= n \/ Len(taken) >= Len(logits) THEN taken
    ELSE LET rest == (0..(Len(logits) - 1)) \ {taken[k] : k \in 1..Len(taken)}
             best == CHOOSE i \in rest :
                         \A j \in rest :
                             \/ logits[j + 1] < logits[i + 1]
                             \/ logits[j + 1] = logits[i + 1] /\ i <= j
         IN  BestIndexes(logits, n, Append(taken, best))

get_best_indexes(logits, n) == BestIndexes(logits, n, <<>>)

\* the start index need not be a max context position
KeepPairAnyContext(feature, start_index, end_index, max_length) ==
    /\ start_index < Len(feature.tokens)
    /\ end_index < Len(feature.tokens)
    /\ start_index \in DOMAIN feature.token_to_orig_map
    /\ end_index \in DOMAIN feature.token_to_orig_map
    /\ end_index >= start_index
    /\ end_index - start_index + 1 <= max_length

\* the pair passes every continue of lines 800-814
KeepPair(feature, start_index, end_index, max_length) ==
    /\ start_index < Len(feature.tokens)
    /\ end_index < Len(feature.tokens)
    /\ start_index \in DOMAIN feature.token_to_orig_map
    /\ end_index \in DOMAIN feature.token_to_orig_map
    /\ start_index \in DOMAIN feature.token_is_max_context
    /\ feature.token_is_max_context[start_index]
    /\ end_index >= start_index
    /\ end_index - start_index + 1 <= max_length

\* for start_index in start_indexes: for end_index in end_indexes
IndexPairs(starts, ends) ==
    [k \in 1..(Len(starts) * Len(ends)) |->
        <<starts[((k - 1) \div Len(ends)) + 1], ends[((k - 1) % Len(ends)) + 1]>>]

\* the preliminary predictions one feature adds
FeatureCandidates(fi, feature, res, n, max_length) ==
    LET pairs == IndexPairs(get_best_indexes(res.start_logits, n),
                            get_best_indexes(res.end_logits, n))
        kept == SelectSeq(pairs, LAMBDA p : KeepPair(feature, p[1], p[2], max_length))
    IN  [k \in 1..Len(kept) |->
            [feature_index |-> fi,
             start_index |-> kept[k][1],
             end_index |-> kept[k][2],
             start_logit |-> res.start_logits[kept[k][1] + 1],
             end_logit |-> res.end_logits[kept[k][2] + 1]]]

PredScore(pred) == pred.start_logit + pred.end_logit

InsertLast(sorted, x) == Append(sorted, x)

\* x goes behind every entry whose score is not lower
InsertByScore(sorted, x) ==
    LET n == Cardinality({k \in 1..Len(sorted) :
                             PredScore(sorted[k]) >= PredScore(x)})
    IN  SubSeq(sorted, 1, n) \o <<x>> \o SubSeq(sorted, n + 1, Len(sorted))

RECURSIVE SortByScore(_)
\* sorted(prelim_predictions, key start_logit + end_logit, reverse=True), stable
SortByScore(preds) ==
    IF preds = <<>> THEN <<>>
    ELSE InsertByScore(SortByScore(SubSeq(preds, 1, Len(preds) - 1)),
                       preds[Len(preds)])

\* The words of a feature are whole word pieces that the basic tokenizer leaves
\* as they are, so get_final_text finds tok_text at offset 0 of orig_text and
\* returns orig_text whole: the words orig_doc_start .. orig_doc_end.
FinalText(feature, pred) ==
    Slice(example_doc_tokens,
          feature.token_to_orig_map[pred.start_index],
          feature.token_to_orig_map[pred.end_index])

NbestEntry(text, start_logit, end_logit) ==
    [text |-> text, start_logit |-> start_logit, end_logit |-> end_logit]

AlreadySeenNever(final_text, seen) == FALSE

\* line 865: if final_text in seen_predictions
AlreadySeen(final_text, seen) == final_text \in seen

RECURSIVE WalkPrelim(_, _, _, _)
\* the loop of lines 841-877 from the i-th sorted prediction on
WalkPrelim(preds, i, entries, seen) ==
    IF i > Len(preds) \/ Len(entries) >= n_best_size
    THEN [nbest |-> entries, seen |-> seen, raised |-> ""]
    ELSE LET pred == preds[i]
         IN  IF pred.feature_index >= Len(example_features)
             THEN [nbest |-> entries, seen |-> seen, raised |-> "IndexError"]
             ELSE LET feature == example_features[pred.feature_index + 1]
                  IN  IF pred.start_index > 0
                      THEN LET final_text == FinalText(feature, pred)
                           IN  IF AlreadySeen(final_text, seen)
                               THEN WalkPrelim(preds, i + 1, entries, seen)
                               ELSE WalkPrelim(preds, i + 1,
                                        Append(entries,
                                               NbestEntry(final_text,
                                                          pred.start_logit,
                                                          pred.end_logit)),
                                        seen \cup {final_text})
                      ELSE WalkPrelim(preds, i + 1,
                               Append(entries,
                                      NbestEntry(EmptyText, pred.start_logit,
                                                 pred.end_logit)),
                               seen \cup {EmptyText})

\* best_non_null_entry: <<>> while None, else the first entry with a text
FirstNonNull(entries) ==
    LET with_text == {k \in 1..Len(entries) : entries[k].text # EmptyText}
    IN  IF with_text = {} THEN <<>>
        ELSE <<entries[CHOOSE k \in with_text : \A j \in with_text : k <= j]>>

\* f1_score(text, candidate) > 0: the two texts share a word
F1Positive(text, candidate) ==
    {text[k] : k \in 1..Len(text)} \cap {candidate[k] : k \in 1..Len(candidate)}
        # {}

\* the last entry that overlaps a candidate is picked
PickedIndexLast(entries, cands) ==
    LET overlapping ==
            {k \in 1..Len(entries) :
                \E c \in 1..Len(cands) : F1Positive(entries[k].text, cands[c])}
    IN  IF overlapping = {} THEN 1
        ELSE CHOOSE k \in overlapping : \A j \in overlapping : k >= j

\* the first entry that overlaps a candidate, else the first entry
PickedIndex(entries, cands) ==
    LET overlapping ==
            {k \in 1..Len(entries) :
                \E c \in 1..Len(cands) : F1Positive(entries[k].text, cands[c])}
    IN  IF overlapping = {} THEN 1
        ELSE CHOOSE k \in overlapping : \A j \in overlapping : k <= j

PredictNullAtThreshold(score_diff, threshold) == score_diff >= threshold

\* if score_diff > null_score_diff_threshold
PredictNull(score_diff, threshold) == score_diff > threshold

InitDecode ==
    /\ IdleFeat
    /\ IdleImp
    /\ IdleBatch
    /\ IdleText
    /\ IdleLabel
    /\ IdleContext
    /\ IdleRead
    /\ pc = "collect"
    /\ version_2_with_negative \in BOOLEAN
    /\ n_best_size \in {1, MaxNBest}
    /\ max_answer_length \in {1, MaxAnswerLength}
    /\ null_score_diff_threshold
           \in (IF version_2_with_negative THEN {0, MaxThreshold} ELSE {0})
    /\ candidates \in (IF version_2_with_negative THEN {<<>>} ELSE CandidateLists)
    /\ \E shape \in ExampleShapes :
           /\ example_doc_tokens = shape.words
           /\ example_features =
                  ExampleFeatures(shape.words,
                                  ChunkSpans(Len(shape.words), 0,
                                             shape.max_tokens, shape.stride))
    /\ feature_index = 0
    /\ result = <<>>
    /\ null_logits = <<>>
    /\ prelim_predictions = <<>>
    /\ score_null = ScoreNullInit
    /\ min_null_feature_index = 0
    /\ null_start_logit = 0
    /\ null_end_logit = 0
    /\ nbest = <<>>
    /\ seen_predictions = {}
    /\ best_non_null_entry = <<>>
    /\ prediction = <<>>
    /\ raised = ""

\* One turn of the loop over the example's features; feature_index counts the
\* features already read.
CollectFeature ==
    /\ pc = "collect"
    /\ feature_index < Len(example_features)
    /\ \E start_logits, end_logits \in
           LogitArrays(ResultLen(example_features), PeaksFor(example_features)) :
           LET res == [start_logits |-> start_logits, end_logits |-> end_logits]
               feature_null_score == start_logits[1] + end_logits[1]
               lower == version_2_with_negative /\ feature_null_score < score_null
           IN  /\ result' = res
               /\ null_logits' = Append(null_logits, <<start_logits[1], end_logits[1]>>)
               /\ score_null' = IF lower THEN feature_null_score ELSE score_null
               /\ min_null_feature_index' =
                      IF lower THEN feature_index ELSE min_null_feature_index
               /\ null_start_logit' =
                      IF lower THEN start_logits[1] ELSE null_start_logit
               /\ null_end_logit' = IF lower THEN end_logits[1] ELSE null_end_logit
               /\ prelim_predictions' =
                      prelim_predictions
                          \o FeatureCandidates(feature_index,
                                               example_features[feature_index + 1],
                                               res, n_best_size, max_answer_length)
    /\ feature_index' = feature_index + 1
    /\ UNCHANGED <<pc, decInputs, nbest, seen_predictions, best_non_null_entry,
                   prediction, raised, notDecVars>>

\* Lines 823-894: the null prediction joins, the predictions are sorted, the
\* n-best list is built. The loop is over, so its local result is dropped.
BuildNBest ==
    /\ pc = "collect"
    /\ feature_index >= Len(example_features)
    /\ LET null_pred == [feature_index |-> min_null_feature_index,
                         start_index |-> 0,
                         end_index |-> 0,
                         start_logit |-> null_start_logit,
                         end_logit |-> null_end_logit]
           sorted == SortByScore(IF version_2_with_negative
                                 THEN Append(prelim_predictions, null_pred)
                                 ELSE prelim_predictions)
           walk == WalkPrelim(sorted, 1, <<>>, {})
           with_null ==
               IF version_2_with_negative /\ EmptyText \notin walk.seen
               THEN Append(walk.nbest,
                           NbestEntry(EmptyText, null_start_logit, null_end_logit))
               ELSE walk.nbest
       IN  /\ prelim_predictions' = sorted
           /\ result' = <<>>
           /\ null_logits' = <<>>
           /\ seen_predictions' = walk.seen
           /\ IF walk.raised # ""
              THEN /\ nbest' = walk.nbest
                   /\ raised' = walk.raised
                   /\ pc' = "raised"
              ELSE /\ nbest' = IF with_null = <<>>
                               THEN <<NbestEntry(PlaceholderText, 0, 0)>>
                               ELSE with_null
                   /\ raised' = raised
                   /\ pc' = "select"
    /\ UNCHANGED <<decInputs, feature_index, nullVars,
                   best_non_null_entry, prediction, notDecVars>>

\* Lines 896-939: the final prediction of the example.
SelectAnswer ==
    /\ pc = "select"
    /\ LET best == FirstNonNull(nbest)
       IN  /\ best_non_null_entry' = best
           /\ IF ~version_2_with_negative
              THEN /\ prediction' = <<nbest[PickedIndex(nbest, candidates)].text>>
                   /\ raised' = raised
                   /\ pc' = "decoded"
              ELSE IF best = <<>>
              THEN /\ prediction' = prediction
                   /\ raised' = "AttributeError"
                   /\ pc' = "raised"
              ELSE /\ prediction' =
                          IF PredictNull(score_null - best[1].start_logit
                                             - best[1].end_logit,
                                         null_score_diff_threshold)
                          THEN <<EmptyText>>
                          ELSE <<best[1].text>>
                   /\ raised' = raised
                   /\ pc' = "decoded"
    /\ UNCHANGED <<decInputs, feature_index, result, null_logits,
                   prelim_predictions, nullVars,
                   nbest, seen_predictions, notDecVars>>

NextDecode == CollectFeature \/ BuildNBest \/ SelectAnswer

SpecDecode == InitDecode /\ [][NextDecode]_vars

\* ------------------------------------------------------------- decoder claims
Decoding == pc \in {"collect", "select", "decoded", "raised"}

\* index i is among the n highest of logits, the lower index winning a tie
InTopN(logits, n, i) ==
    /\ i \in 0..(Len(logits) - 1)
    /\ Cardinality({j \in 0..(Len(logits) - 1) :
                       \/ logits[j + 1] > logits[i + 1]
                       \/ logits[j + 1] = logits[i + 1] /\ j < i}) < n

IsNullPred(pred) == pred.start_index = 0 /\ pred.end_index = 0

\* the conditions of the claim on a pair of a feature
PairIsValid(feature, s, e) ==
    /\ s < Len(feature.tokens)
    /\ e < Len(feature.tokens)
    /\ s \in DOMAIN feature.token_to_orig_map
    /\ e \in DOMAIN feature.token_to_orig_map
    /\ feature.token_is_max_context[s]
    /\ e >= s
    /\ e - s + 1 <= max_answer_length

PrelimOf(fi) ==
    {prelim_predictions[k] :
        k \in {j \in 1..Len(prelim_predictions) :
                  /\ prelim_predictions[j].feature_index = fi
                  /\ ~IsNullPred(prelim_predictions[j])}}

\* C8: every non-null preliminary prediction lies inside its feature's tokens,
\* starts and ends on document positions, starts on a max context position, has
\* end >= start and at most max_answer_length tokens; and of the feature just
\* read, the preliminary predictions are exactly the pairs of the top n_best_size
\* start and end indexes that meet these conditions, each carrying its two
\* logits; the sorted list descends by start_logit + end_logit.
C8_CandidateFilter ==
    Decoding =>
        /\ \A k \in 1..Len(prelim_predictions) :
               LET pred == prelim_predictions[k]
               IN  \/ IsNullPred(pred)
                   \/ /\ pred.feature_index < feature_index
                      /\ PairIsValid(example_features[pred.feature_index + 1],
                                     pred.start_index, pred.end_index)
        /\ (pc = "collect" /\ feature_index >= 1) =>
               LET fi == feature_index - 1
                   feature == example_features[fi + 1]
                   n == Len(result.start_logits)
               IN  PrelimOf(fi) =
                       {[feature_index |-> fi,
                         start_index |-> s,
                         end_index |-> e,
                         start_logit |-> result.start_logits[s + 1],
                         end_logit |-> result.end_logits[e + 1]] :
                           <<s, e>> \in
                               {q \in (0..(n - 1)) \X (0..(n - 1)) :
                                   /\ InTopN(result.start_logits, n_best_size, q[1])
                                   /\ InTopN(result.end_logits, n_best_size, q[2])
                                   /\ q[1] \in DOMAIN feature.token_to_orig_map
                                   /\ PairIsValid(feature, q[1], q[2])}}
        /\ pc \in {"select", "decoded"} =>
               \A i, j \in 1..Len(prelim_predictions) :
                   i < j => prelim_predictions[i].start_logit
                                + prelim_predictions[i].end_logit
                            >= prelim_predictions[j].start_logit
                                + prelim_predictions[j].end_logit

\* the second of two overlapping features was read: the pair (2, 3) of its top
\* start and end indexes is short enough and lies on document positions, but
\* the feature does not own position 2, and the pair was dropped; the first
\* feature kept a pair
C8_Witness ==
    /\ pc = "collect"
    /\ Len(example_features) = 2
    /\ feature_index = 2
    /\ ~example_features[2].token_is_max_context[2]
    /\ max_answer_length = 2
    /\ InTopN(result.start_logits, n_best_size, 2)
    /\ InTopN(result.end_logits, n_best_size, 3)
    /\ PrelimOf(1) = {}
    /\ PrelimOf(0) # {}

NoSurvivor ==
    \A k \in 1..Len(prelim_predictions) : IsNullPred(prelim_predictions[k])

\* C9: when every feature of an example is read and no pair survived the filter,
\* decoding does not raise, the n-best list has at least one entry, and a final
\* prediction is recorded.
C9_NoValidPredictionNonFatal ==
    (pc \in {"select", "decoded", "raised"} /\ NoSurvivor) =>
        /\ pc # "raised"
        /\ Len(nbest) >= 1
        /\ pc = "decoded" => prediction # <<>>

WithText(entries) == {k \in 1..Len(entries) : entries[k].text # EmptyText}

\* the first n-best entry with a non-empty text
BestNonNull(entries) ==
    entries[CHOOSE k \in WithText(entries) : \A j \in WithText(entries) : k <= j]

NullScoreDiff ==
    score_null - (BestNonNull(nbest).start_logit + BestNonNull(nbest).end_logit)

\* C10: with negative answers, a recorded final prediction is the empty string
\* exactly when score_null minus the score of the first n-best entry with a text
\* is strictly above null_score_diff_threshold, and is that entry's text
\* otherwise; the selection raises only when the n-best list has no such entry.
C10_NullThreshold ==
    /\ (pc = "decoded" /\ version_2_with_negative) =>
           /\ WithText(nbest) # {}
           /\ prediction # <<>>
           /\ prediction[1] = EmptyText
                  <=> NullScoreDiff > null_score_diff_threshold
           /\ NullScoreDiff <= null_score_diff_threshold
                  => prediction[1] = BestNonNull(nbest).text
    /\ (pc = "raised" /\ raised = "AttributeError") => WithText(nbest) = {}

\* the null score is above the best non-null score, but not by more than the
\* threshold: the non-null text is the prediction
C10_Witness ==
    /\ pc = "decoded"
    /\ version_2_with_negative
    /\ WithText(nbest) # {}
    /\ NullScoreDiff > 0
    /\ NullScoreDiff <= null_score_diff_threshold
    /\ prediction = <<BestNonNull(nbest).text>>
    /\ prediction[1] # EmptyText

\* n-best entry k has F1 > 0 against some candidate of the example
Overlaps(k) ==
    \E c \in 1..Len(candidates) : F1Positive(nbest[k].text, candidates[c])

\* C11: without negative answers, the recorded prediction is the text of the
\* lowest-index n-best entry that has F1 > 0 against a candidate, and the text
\* of the first n-best entry when no entry overlaps a candidate.
C11_CandidatePick ==
    (pc = "decoded" /\ ~version_2_with_negative) =>
        /\ Len(nbest) >= 1
        /\ prediction # <<>>
        /\ \A k \in 1..Len(nbest) :
               (Overlaps(k) /\ \A j \in 1..(k - 1) : ~Overlaps(j))
                   => prediction[1] = nbest[k].text
        /\ (\A k \in 1..Len(nbest) : ~Overlaps(k))
               => prediction[1] = nbest[1].text

\* the top entry overlaps no candidate, the second does and is the prediction
C11_Witness ==
    /\ pc = "decoded"
    /\ ~version_2_with_negative
    /\ Len(nbest) >= 2
    /\ ~Overlaps(1)
    /\ Overlaps(2)
    /\ prediction = <<nbest[2].text>>
    /\ nbest[2].text # nbest[1].text


\* the final text of the i-th sorted preliminary prediction
TextOf(i) ==
    LET pred == prelim_predictions[i]
    IN  IF pred.start_index > 0
        THEN FinalText(example_features[pred.feature_index + 1], pred)
        ELSE EmptyText

\* the sorted predictions whose text no earlier prediction has
FirstOccurrences ==
    {i \in 1..Len(prelim_predictions) : \A j \in 1..(i - 1) : TextOf(j) # TextOf(i)}

\* the k-th least element of a set of numbers
RECURSIVE Nth(_, _)
Nth(S, k) ==
    LET least == CHOOSE x \in S : \A y \in S : x <= y
    IN  IF k = 1 THEN least ELSE Nth(S \ {least}, k - 1)

\* the n-best list has been built
NBestBuilt ==
    \/ pc \in {"select", "decoded"}
    \/ pc = "raised" /\ raised = "AttributeError"

\* the empty entry of lines 880-886 was appended after the walk
NullAppended == version_2_with_negative /\ EmptyText \notin seen_predictions

\* the entries the walk collected
Walked == IF NullAppended THEN Len(nbest) - 1 ELSE Len(nbest)

\* C20: the n-best list of an example has pairwise distinct texts; the walk
\* over the sorted preliminary predictions keeps the first prediction of each
\* text and stops at n_best_size entries, so the list has at least one and at
\* most n_best_size entries from the walk, plus one empty-text entry with the
\* null logits appended exactly when negative answers are enabled and the walk
\* produced no empty text.
C20_NBestDistinctBounded ==
    NBestBuilt =>
        /\ \A i, j \in 1..Len(nbest) : i # j => nbest[i].text # nbest[j].text
        /\ Len(nbest) >= 1
        /\ Walked <= n_best_size
        /\ IF FirstOccurrences = {} /\ ~NullAppended
           THEN nbest = <<NbestEntry(PlaceholderText, 0, 0)>>
           ELSE /\ Walked = Min(n_best_size, Cardinality(FirstOccurrences))
                /\ \A k \in 1..Walked :
                       LET i == Nth(FirstOccurrences, k)
                       IN  nbest[k] = NbestEntry(TextOf(i),
                                                 prelim_predictions[i].start_logit,
                                                 prelim_predictions[i].end_logit)
                /\ NullAppended =>
                       nbest[Len(nbest)]
                           = NbestEntry(EmptyText, null_start_logit, null_end_logit)

\* negative answers enabled: the walk skipped a repeated text, stopped at two
\* entries before the null prediction, and the empty entry was appended
C20_Witness ==
    /\ pc = "select"
    /\ version_2_with_negative
    /\ n_best_size = 2
    /\ Len(nbest) = 3
    /\ NullAppended
    /\ Nth(FirstOccurrences, 2) >= 3
    /\ nbest[3].text = EmptyText

\* start_logits[0] + end_logits[0] of the k-th feature read
NullScoreOf(k) == null_logits[k][1] + null_logits[k][2]

\* the loop over the example's features is over
AllFeaturesRead == pc = "collect" /\ feature_index = Len(example_features)

\* the sorted preliminary predictions that are null predictions
NullPredictions ==
    {i \in 1..Len(prelim_predictions) : IsNullPred(prelim_predictions[i])}

\* C21: with negative answers enabled, once every feature of the example is
\* read, score_null is the least start_logits[0] + end_logits[0] of its features
\* and null_start_logit, null_end_logit and min_null_feature_index are those of
\* the first feature with that least score; the preliminary predictions then
\* get exactly one null prediction, and its start_logit + end_logit is
\* score_null.
C21_NullScoreTracking ==
    version_2_with_negative =>
        /\ AllFeaturesRead =>
               /\ \A k \in 1..Len(null_logits) : score_null <= NullScoreOf(k)
               /\ \A k \in 1..Len(null_logits) :
                      (\A j \in 1..(k - 1) : NullScoreOf(j) > score_null)
                      /\ NullScoreOf(k) = score_null
                      => /\ min_null_feature_index = k - 1
                         /\ null_start_logit = null_logits[k][1]
                         /\ null_end_logit = null_logits[k][2]
               /\ null_logits # <<>> =>
                      \E k \in 1..Len(null_logits) : NullScoreOf(k) = score_null
        /\ pc \in {"select", "decoded", "raised"} =>
               /\ Cardinality(NullPredictions) = 1
               /\ \A i \in NullPredictions :
                      PredScore(prelim_predictions[i]) = score_null

\* start_logit + end_logit of the k-th n-best entry
EntryScore(k) == nbest[k].start_logit + nbest[k].end_logit

\* C22: the entries of an example's n-best list are in non-increasing order of
\* start_logit + end_logit, also when the empty entry was appended after the
\* walk instead of collected by it.
C22_NBestRanked ==
    NBestBuilt =>
        \A i, j \in 1..Len(nbest) : i < j => EntryScore(i) >= EntryScore(j)

\* the walk stopped at two entries of different scores before it reached the
\* null prediction, and the empty entry was appended behind them
C22_Witness ==
    /\ pc = "select"
    /\ version_2_with_negative
    /\ NullAppended
    /\ Len(nbest) = 3
    /\ nbest[3].text = EmptyText
    /\ EntryScore(1) > EntryScore(2)
    /\ EntryScore(2) > EntryScore(3)
\* ------------------------------------------------------------- text reprojection
\* A string is the sequence of its characters. The characters told apart: a
\* lower-case letter, an upper-case letter, the blank, a punctuation mark, and a
\* control character.
LowerChar == "s"

UpperChar == "S"

Blank == " "

PunctChar == "'"

CtrlChar == "^"

OrigChars == {LowerChar, UpperChar, Blank, PunctChar, CtrlChar}

PredChars == {LowerChar, Blank, PunctChar}

RECURSIVE SplitChars(_, _)
\* the basic tokenizer, character by character: a control character is removed,
\* a punctuation mark becomes a token of its own, letters are lower-cased when
\* do_lower_case is set
SplitChars(text, lower) ==
    IF text = <<>> THEN <<>>
    ELSE LET c == Head(text)
             out == IF c = CtrlChar THEN <<>>
                    ELSE IF c = PunctChar THEN <<Blank, c, Blank>>
                    ELSE IF lower /\ c = UpperChar THEN <<LowerChar>>
                    ELSE <<c>>
         IN  out \o SplitChars(Tail(text), lower)

RECURSIVE JoinTokens(_, _, _)
\* " ".join(text.split()): no blank in front, one blank between tokens, none
\* behind; started says a token was written, gap that blanks followed it
JoinTokens(text, started, gap) ==
    IF text = <<>> THEN <<>>
    ELSE IF Head(text) = Blank THEN JoinTokens(Tail(text), started, started)
    ELSE (IF gap THEN <<Blank>> ELSE <<>>) \o <<Head(text)>>
             \o JoinTokens(Tail(text), TRUE, FALSE)

\* tok_text = " ".join(tokenizer.tokenize(orig_text))
TokText(text, lower) == JoinTokens(SplitChars(text, lower), FALSE, FALSE)

\* needle stands in hay at offset i
OccursAt(hay, needle, i) ==
    /\ i + Len(needle) <= Len(hay)
    /\ \A k \in 1..Len(needle) : hay[i + k] = needle[k]

\* hay.find(needle): the lowest offset, or -1
StrFind(hay, needle) ==
    LET offsets == {i \in 0..Len(hay) : OccursAt(hay, needle, i)}
    IN  IF offsets = {} THEN -1
        ELSE CHOOSE i \in offsets : \A j \in offsets : i <= j

RECURSIVE NsToSMap(_, _)
\* _strip_spaces: the offsets of the characters that are no blank, in order;
\* entry k + 1 is ns_to_s_map[k]
NsToSMap(text, i) ==
    IF i >= Len(text) THEN <<>>
    ELSE (IF text[i + 1] = Blank THEN <<>> ELSE <<i>>) \o NsToSMap(text, i + 1)

\* Lines 1028-1032 and 1039-1043: a position of tok_text through
\* tok_s_to_ns_map and orig_ns_to_s_map; <<>> stands for None
OrigPosition(tok_map, orig_map, position) ==
    LET hits == {k \in 1..Len(tok_map) : tok_map[k] = position}
    IN  IF hits = {} THEN <<>>
        ELSE LET ns_position == (CHOOSE k \in hits : TRUE) - 1
             IN  IF ns_position < Len(orig_map)
                 THEN <<orig_map[ns_position + 1]>>
                 ELSE <<>>

\* the lengths without blanks are not compared
get_final_text_unchecked(pred, orig, lower) ==
    LET tok_text == TokText(orig, lower)
        start_position == StrFind(tok_text, pred)
        end_position == start_position + Len(pred) - 1
        orig_ns_to_s_map == NsToSMap(orig, 0)
        tok_ns_to_s_map == NsToSMap(tok_text, 0)
        orig_start_position ==
            OrigPosition(tok_ns_to_s_map, orig_ns_to_s_map, start_position)
        orig_end_position ==
            OrigPosition(tok_ns_to_s_map, orig_ns_to_s_map, end_position)
    IN  IF start_position = -1 THEN orig
        ELSE IF orig_start_position = <<>> THEN orig
        ELSE IF orig_end_position = <<>> THEN orig
        ELSE Slice(orig, orig_start_position[1], orig_end_position[1])

get_final_text(pred, orig, lower) ==
    LET tok_text == TokText(orig, lower)
        start_position == StrFind(tok_text, pred)
        end_position == start_position + Len(pred) - 1
        orig_ns_to_s_map == NsToSMap(orig, 0)
        tok_ns_to_s_map == NsToSMap(tok_text, 0)
        orig_start_position ==
            OrigPosition(tok_ns_to_s_map, orig_ns_to_s_map, start_position)
        orig_end_position ==
            OrigPosition(tok_ns_to_s_map, orig_ns_to_s_map, end_position)
    IN  IF start_position = -1 THEN orig
        ELSE IF Len(orig_ns_to_s_map) # Len(tok_ns_to_s_map) THEN orig
        ELSE IF orig_start_position = <<>> THEN orig
        ELSE IF orig_end_position = <<>> THEN orig
        ELSE Slice(orig, orig_start_position[1], orig_end_position[1])

InitFinalText ==
    /\ IdleFeat
    /\ IdleImp
    /\ IdleBatch
    /\ IdleDec
    /\ IdleLabel
    /\ IdleContext
    /\ IdleRead
    /\ pc = "project"
    /\ pred_text \in SeqsUpTo(PredChars, MaxPredLen)
    /\ orig_text \in SeqsUpTo(OrigChars, MaxOrigLen)
    /\ do_lower_case \in BOOLEAN
    /\ output_text = <<>>

\* final_text = get_final_text(tok_text, orig_text, do_lower_case, verbose)
GetFinalText ==
    /\ pc = "project"
    /\ output_text' = get_final_text(pred_text, orig_text, do_lower_case)
    /\ pc' = "projected"
    /\ UNCHANGED <<pred_text, orig_text, do_lower_case, notTextVars>>

NextFinalText == GetFinalText

SpecFinalText == InitFinalText /\ [][NextFinalText]_vars

\* ------------------------------------------------------------- reprojection claim
\* how many of the first n characters of text are no blank
NonBlanks(text, n) == Cardinality({i \in 1..n : text[i] # Blank})

\* the offset of the k-th character of text that is no blank, k from 1
NonBlankAt(text, k) ==
    (CHOOSE i \in 1..Len(text) : text[i] # Blank /\ NonBlanks(text, i) = k) - 1

TokOfOrig == TokText(orig_text, do_lower_case)

MatchOffsets ==
    {i \in 0..Len(TokOfOrig) : OccursAt(TokOfOrig, pred_text, i)}

MatchStart == CHOOSE i \in MatchOffsets : \A j \in MatchOffsets : i <= j

MatchEnd == MatchStart + Len(pred_text) - 1

\* pred_text is not found, or the lengths without blanks differ, or the first or
\* last position of the match is no character that counts (a blank, or none)
AlignmentFails ==
    \/ MatchOffsets = {}
    \/ NonBlanks(orig_text, Len(orig_text)) # NonBlanks(TokOfOrig, Len(TokOfOrig))
    \/ pred_text = <<>>
    \/ TokOfOrig[MatchStart + 1] = Blank
    \/ TokOfOrig[MatchEnd + 1] = Blank

IsSubstring(part, whole) ==
    \E i \in 0..Len(whole) : OccursAt(whole, part, i)

\* C12: when the alignment fails get_final_text returns orig_text unchanged;
\* otherwise it returns orig_text from the character that the first character of
\* the match projects to up to the one the last character projects to, counting
\* characters that are no blank in both strings; the result is always a
\* substring of orig_text.
C12_FinalTextFallback ==
    pc = "projected" =>
        /\ AlignmentFails => output_text = orig_text
        /\ ~AlignmentFails =>
               output_text =
                   Slice(orig_text,
                         NonBlankAt(orig_text,
                                    NonBlanks(TokOfOrig, MatchStart + 1)),
                         NonBlankAt(orig_text,
                                    NonBlanks(TokOfOrig, MatchEnd + 1)))
        /\ IsSubstring(output_text, orig_text)

\* the prediction is found in the lower-cased, split original and the result
\* is a proper part of the original: the trailing possessive is cut off
C12_Witness ==
    /\ pc = "projected"
    /\ do_lower_case
    /\ pred_text = <<LowerChar, LowerChar>>
    /\ orig_text = <<UpperChar, LowerChar, PunctChar, LowerChar>>
    /\ output_text = <<UpperChar, LowerChar>>

SpanHoldsAnswer(doc_span) ==
    /\ tok_start_position >= doc_span.start
    /\ tok_end_position <= SpanEnd(doc_span)

\* the query is counted without [CLS] and [SEP]
FeaturePositionNoOffset(tok_position, doc_span) ==
    tok_position - doc_span.start + Len(query_tokens)

\* tok_position - doc_start + doc_offset, doc_offset = len(query_tokens) + 2
FeaturePosition(tok_position, doc_span) ==
    tok_position - doc_span.start + Len(query_tokens) + 2

\* impossible examples lose the spans too
DiscardedAlsoImpossible(doc_span) ==
    is_training /\ ~SpanHoldsAnswer(doc_span)

\* the span's feature is thrown out: lines 417-425
Discarded(doc_span) ==
    is_training /\ ~is_impossible /\ ~SpanHoldsAnswer(doc_span)

\* start_position and end_position of the span's feature: lines 415-433
Labels(doc_span) ==
    IF is_training /\ is_impossible
    THEN [start_position |-> 0, end_position |-> 0]
    ELSE IF is_training
    THEN [start_position |-> FeaturePosition(tok_start_position, doc_span),
          end_position |-> FeaturePosition(tok_end_position, doc_span)]
    ELSE [start_position |-> None, end_position |-> None]

LabelledFeature(span_index) ==
    BuildFeatureRecord(span_index) @@ Labels(doc_spans[span_index + 1])
        @@ [is_impossible |-> is_impossible]

\* one example in training or prediction; its token span is any span of the
\* document, (-1, -1) when impossible, None in prediction
InitTrain ==
    /\ IdleImp
    /\ IdleBatch
    /\ IdleDec
    /\ IdleText
    /\ IdleContext
    /\ IdleRead
    /\ pc = "start"
    /\ max_seq_length \in 2..MaxSeqLen
    /\ doc_stride \in 0..MaxStride
    /\ max_query_length \in 0..MaxQueryToks
    /\ max_wn_concept_length = MaxConceptLen
    /\ max_nell_concept_length = MaxConceptLen
    /\ \E n \in 0..MaxQueryToks :
          /\ query_tokens = [i \in 1..n |-> QueryToken(i - 1)]
          /\ query_wn_concepts = [i \in 1..n |-> ConceptList(2, i - 1)]
          /\ query_nell_concepts = [i \in 1..n |-> ConceptList(3, i - 1)]
    /\ \E len \in 0..MaxDocLen :
          /\ all_doc_tokens = [i \in 1..len |-> DocToken(i - 1)]
          /\ tok_to_orig_index = [i \in 1..len |-> i - 1]
          /\ doc_wn_concepts = [i \in 1..len |-> ConceptList(0, i - 1)]
          /\ doc_nell_concepts = [i \in 1..len |-> ConceptList(1, i - 1)]
          /\ \/ /\ is_training = FALSE
                /\ is_impossible = FALSE
                /\ tok_start_position = None
                /\ tok_end_position = None
             \/ /\ is_training = TRUE
                /\ is_impossible = TRUE
                /\ tok_start_position = -1
                /\ tok_end_position = -1
             \/ /\ is_training = TRUE
                /\ is_impossible = FALSE
                /\ tok_start_position \in 0..(len - 1)
                /\ tok_end_position \in tok_start_position..(len - 1)
    /\ max_tokens_for_doc = 0
    /\ start_offset = 0
    /\ doc_spans = <<>>
    /\ doc_span_index = 0
    /\ unique_id = UniqueIdSeed
    /\ features = <<>>
    /\ invocation = 0
    /\ emitted_ids = <<>>

\* one iteration of the loop of lines 353-488 with the labels: the span's
\* feature is thrown out or labelled and yielded
BuildLabelledFeature ==
    /\ pc = "build"
    /\ doc_span_index < Len(doc_spans)
    /\ IF Discarded(doc_spans[doc_span_index + 1])
       THEN UNCHANGED <<features, unique_id, emitted_ids>>
       ELSE /\ features' = Append(features, LabelledFeature(doc_span_index))
            /\ emitted_ids' = Append(emitted_ids, <<invocation, unique_id>>)
            /\ unique_id' = unique_id + 1
    /\ doc_span_index' = doc_span_index + 1
    /\ UNCHANGED <<pc, max_seq_length, doc_stride, max_query_length,
                   max_wn_concept_length, max_nell_concept_length,
                   query_tokens, query_wn_concepts, query_nell_concepts,
                   all_doc_tokens, tok_to_orig_index, doc_wn_concepts,
                   doc_nell_concepts, max_tokens_for_doc, start_offset,
                   doc_spans, is_training, is_impossible, tok_start_position,
                   tok_end_position, invocation, notTrainVars>>

\* the ids go on where the invocation before stopped
NextSeedContinued == unique_id

\* unique_id = 1000000000 at the head of every invocation
NextSeed == UniqueIdSeed

\* the wrapper's next epoch: get_features builds a new converter and calls it
NextInvocation ==
    /\ pc = "feat_done"
    /\ invocation + 1 < MaxEpochs
    /\ invocation' = invocation + 1
    /\ unique_id' = NextSeed
    /\ features' = <<>>
    /\ pc' = "start"
    /\ UNCHANGED <<max_seq_length, doc_stride, max_query_length,
                   max_wn_concept_length, max_nell_concept_length,
                   query_tokens, query_wn_concepts, query_nell_concepts,
                   all_doc_tokens, tok_to_orig_index, doc_wn_concepts,
                   doc_nell_concepts, max_tokens_for_doc, start_offset,
                   doc_spans, doc_span_index, is_training, is_impossible,
                   tok_start_position, tok_end_position, emitted_ids,
                   notTrainVars>>

NextTrain ==
    \/ Prepare
    \/ ChunkStep
    \/ ChunkExit
    \/ BuildLabelledFeature
    \/ BuildDone
    \/ NextInvocation

SpecTrain == InitTrain /\ [][NextTrain]_vars

\* ------------------------------------------------------------- training claims
\* how many of the first k - 1 emissions belong to the invocation of the k-th
EmittedBefore(k) ==
    Cardinality({j \in 1..(k - 1) : emitted_ids[j][1] = emitted_ids[k][1]})

SpansDone == pc \in {"build", "feat_done"}

FeaturesOfSpan(k) ==
    {j \in 1..Len(features) : features[j].doc_span_index = k}

\* C17: for an answerable training example a feature is emitted for a span
\* exactly when the span holds the token span [tok_start, tok_end]; the
\* feature's start and end position are the token positions minus the span's
\* start plus len(query_tokens) + 2, the feature's tokens between them are the
\* document tokens tok_start..tok_end, and both are keys of token_to_orig_map.
C17_FeatureLocalSpan ==
    (SpansDone /\ is_training /\ ~is_impossible) =>
        \A k \in 0..(doc_span_index - 1) :
            LET doc_span == doc_spans[k + 1]
                holds == /\ doc_span.start <= tok_start_position
                         /\ tok_end_position
                                <= doc_span.start + doc_span.length - 1
            IN  /\ Cardinality(FeaturesOfSpan(k)) = (IF holds THEN 1 ELSE 0)
                /\ \A j \in FeaturesOfSpan(k) :
                       LET f == features[j]
                       IN  /\ f.start_position
                                  = tok_start_position - doc_span.start
                                        + Len(query_tokens) + 2
                           /\ f.end_position
                                  = tok_end_position - doc_span.start
                                        + Len(query_tokens) + 2
                           /\ f.start_position \in DOMAIN f.token_to_orig_map
                           /\ f.end_position \in DOMAIN f.token_to_orig_map
                           /\ SubSeq(f.tokens, f.start_position + 1,
                                     f.end_position + 1)
                                  = SubSeq(all_doc_tokens, tok_start_position + 1,
                                           tok_end_position + 1)

\* behind a query token, one span was thrown out and a later one, not starting
\* at the document's head, was emitted with its labels
C17_Witness ==
    /\ pc = "feat_done"
    /\ is_training
    /\ ~is_impossible
    /\ Len(query_tokens) >= 1
    /\ Len(doc_spans) >= 2
    /\ FeaturesOfSpan(0) = {}
    /\ \E k \in 1..(Len(doc_spans) - 1) :
           /\ FeaturesOfSpan(k) # {}
           /\ doc_spans[k + 1].start >= 1
    /\ tok_end_position > tok_start_position

\* C18: for an impossible training example every span yields a feature, in span
\* order, and each has start_position = 0 and end_position = 0, the position of
\* [CLS].
C18_ImpossibleLabels ==
    (SpansDone /\ is_training /\ is_impossible) =>
        /\ Len(features) = doc_span_index
        /\ \A j \in 1..Len(features) :
               /\ features[j].doc_span_index = j - 1
               /\ features[j].start_position = 0
               /\ features[j].end_position = 0
               /\ features[j].tokens[1] = CLS
               /\ features[j].is_impossible

\* an impossible example of several spans is through
C18_Witness ==
    /\ pc = "feat_done"
    /\ is_training
    /\ is_impossible
    /\ Len(doc_spans) >= 2
    /\ Len(features) = Len(doc_spans)
    /\ features[2].start_position = 0

\* ------------------------------------------------------------- max context of long spans
\* document lengths, span capacities and strides: a few tokens (base 0), or a
\* few tokens more than ScoreScale, where 0.01 * length reaches a whole unit of
\* context
ContextLengths(base) == {base + d : d \in 1..(2 * MaxDocLen)}

\* the spans of lines 342-351 for one document, and one of its positions
InitContext ==
    /\ IdleFeat
    /\ IdleImp
    /\ IdleBatch
    /\ IdleDec
    /\ IdleText
    /\ IdleLabel
    /\ IdleRead
    /\ pc = "context"
    /\ \E base \in {0, ScoreScale} :
       \E doc_len \in ContextLengths(base), max_tokens \in ContextLengths(base),
          stride \in ContextLengths(base) :
          /\ context_spans = ChunkSpans(doc_len, 0, max_tokens, stride)
          /\ context_position \in 0..(doc_len - 1)
    /\ best_score = None
    /\ best_span_index = None

\* lines 547-561: the loop over the spans leaves best_score and best_span_index
CheckIsMaxContext ==
    /\ UNCHANGED notContextVars
    /\ pc = "context"
    /\ LET best == BestSpan(context_spans, context_position, 0, <<>>)
       IN  IF best = <<>>
           THEN UNCHANGED <<best_score, best_span_index>>
           ELSE best_score' = best[1] /\ best_span_index' = best[2]
    /\ pc' = "context_done"
    /\ UNCHANGED <<context_spans, context_position>>

NextContext == CheckIsMaxContext

SpecContext == InitContext /\ [][NextContext]_vars

\* ------------------------------------------------------------- claims: max context
MinContext(doc_span, p) == Min(p - doc_span.start, SpanEnd(doc_span) - p)

\* the spans that contain the position
Containing ==
    {k \in 1..Len(context_spans) : InSpan(context_spans[k], context_position)}

\* C19: the span that owns a position has the largest min(left, right) context
\* among the spans containing the position, and among the spans with that same
\* min-context no span is longer than the owner: the length term only breaks
\* ties between equal min-contexts.
C19_MaxContextChoice ==
    (pc = "context_done" /\ Containing # {}) =>
        LET owner == context_spans[best_span_index + 1]
        IN  \A k \in Containing :
                /\ MinContext(context_spans[k], context_position)
                       <= MinContext(owner, context_position)
                /\ MinContext(context_spans[k], context_position)
                       = MinContext(owner, context_position)
                       => context_spans[k].length <= owner.length

\* ------------------------------------------------------------- example reader
\* texts are sequences of characters: a letter, a blank, and '\xa0'
NoBreakSpace == "_"

PassageChars == {LowerChar, Blank, NoBreakSpace}

AnswerChars == {LowerChar, Blank}

\* line 123: .replace('\xa0', ' ')
ReplaceNoBreakSpace(text) ==
    [i \in 1..Len(text) |-> IF text[i] = NoBreakSpace THEN Blank ELSE text[i]]

\* lines 116-119, over the characters of the model
is_whitespace(c) == c = Blank

RECURSIVE WordTokens(_, _, _, _, _)
\* the loop of lines 127-136 from character i on
WordTokens(text, i, tokens, offsets, prev_is_whitespace) ==
    IF i > Len(text)
    THEN [doc_tokens |-> tokens, char_to_word_offset |-> offsets]
    ELSE LET c == text[i]
             grown ==
                 IF is_whitespace(c) THEN tokens
                 ELSE IF prev_is_whitespace THEN Append(tokens, <<c>>)
                 ELSE [tokens EXCEPT ![Len(tokens)] = Append(@, c)]
         IN  WordTokens(text, i + 1, grown, Append(offsets, Len(grown) - 1),
                        is_whitespace(c))

\* tokenization.whitespace_tokenize: text.strip().split()
whitespace_tokenize(text) == WordTokens(text, 1, <<>>, <<>>, TRUE).doc_tokens

RECURSIVE JoinWords(_)
\* " ".join(words)
JoinWords(words) ==
    IF words = <<>> THEN <<>>
    ELSE IF Len(words) = 1 THEN words[1]
    ELSE words[1] \o <<Blank>> \o JoinWords(Tail(words))

\* l[i] raises IndexError unless -len(l) <= i < len(l)
IndexInRange(l, i) == i >= 0 - Len(l) /\ i < Len(l)

\* l[i]: a negative index counts from the end
ListItem(l, i) == IF i < 0 THEN l[Len(l) + i + 1] ELSE l[i + 1]

\* a slice bound as the list slice takes it
SliceBound(l, i) == IF i < 0 THEN Max(Len(l) + i, 0) ELSE Min(i, Len(l))

\* l[a:b]
ListSlice(l, a, b) == SubSeq(l, SliceBound(l, a) + 1, SliceBound(l, b))

\* lines 179-186; doc_tokens and question_text are the passage's and the pair's
ReCoRDExample(qas_id, orig_answer_text, start_position, end_position, impossible) ==
    [qas_id |-> qas_id,
     orig_answer_text |-> orig_answer_text,
     start_position |-> start_position,
     end_position |-> end_position,
     is_impossible |-> impossible]

\* one entry of entry["qas"]: its id is its place in the dataset
QaPairs(k, text_len) ==
    {[id |-> k, is_impossible |-> FALSE,
      answers |-> <<[text |-> t, start |-> o]>>] :
         t \in SeqsUpTo(AnswerChars, MaxAnswerChars), o \in 0..text_len}
    \cup {[id |-> k, is_impossible |-> TRUE,
           answers |-> <<[text |-> <<LowerChar>>, start |-> 0]>>]}

InitRead ==
    /\ IdleFeat
    /\ IdleImp
    /\ IdleBatch
    /\ IdleDec
    /\ IdleText
    /\ IdleLabel
    /\ IdleContext
    /\ pc = "passage"
    /\ read_is_training \in BOOLEAN
    /\ read_version_2_with_negative \in BOOLEAN
    /\ passage_text \in SeqsUpTo(PassageChars, MaxPassageLen)
    /\ \E n \in 0..MaxQas :
          qas \in {q \in [1..n -> QaPairs(0, Len(passage_text))
                                     \cup QaPairs(1, Len(passage_text))] :
                      \A k \in 1..n : q[k].id = k - 1}
    /\ paragraph_text = <<>>
    /\ passage_doc_tokens = <<>>
    /\ char_to_word_offset = <<>>
    /\ qa_index = 0
    /\ examples = <<>>
    /\ read_error = ""

\* lines 123-136: the passage is split into words
ReadPassage ==
    /\ UNCHANGED notReadVars
    /\ pc = "passage"
    /\ LET text == ReplaceNoBreakSpace(passage_text)
           split == WordTokens(text, 1, <<>>, <<>>, TRUE)
       IN  /\ paragraph_text' = text
           /\ passage_doc_tokens' = split.doc_tokens
           /\ char_to_word_offset' = split.char_to_word_offset
    /\ pc' = "qa"
    /\ UNCHANGED <<read_is_training, read_version_2_with_negative, passage_text,
                   qas, qa_index, examples, read_error>>

\* lines 138-187: one QA pair
ReadQa ==
    /\ UNCHANGED notReadVars
    /\ pc = "qa"
    /\ qa_index < Len(qas)
    /\ LET qa == qas[qa_index + 1]
           impossible == IF read_is_training /\ read_version_2_with_negative
                         THEN qa.is_impossible ELSE FALSE
           answer == qa.answers[1]
           answer_offset == answer.start
           answer_length == Len(answer.text)
           start_position == ListItem(char_to_word_offset, answer_offset)
           end_position == ListItem(char_to_word_offset,
                                    answer_offset + answer_length - 1)
           actual_text == JoinWords(ListSlice(passage_doc_tokens, start_position,
                                              end_position + 1))
           cleaned_answer_text == JoinWords(whitespace_tokenize(answer.text))
       IN  IF ~read_is_training
           THEN /\ examples' = Append(examples,
                                      ReCoRDExample(qa.id, None, None, None, FALSE))
                /\ qa_index' = qa_index + 1
                /\ UNCHANGED <<pc, read_error>>
           ELSE IF impossible
           THEN /\ examples' = Append(examples,
                                      ReCoRDExample(qa.id, <<>>, -1, -1, TRUE))
                /\ qa_index' = qa_index + 1
                /\ UNCHANGED <<pc, read_error>>
           ELSE IF \/ ~IndexInRange(char_to_word_offset, answer_offset)
                   \/ ~IndexInRange(char_to_word_offset,
                                    answer_offset + answer_length - 1)
           THEN /\ read_error' = "IndexError"
                /\ pc' = "read_raised"
                /\ UNCHANGED <<examples, qa_index>>
           ELSE /\ examples' =
                       IF StrFind(actual_text, cleaned_answer_text) = -1
                       THEN examples
                       ELSE Append(examples,
                                   ReCoRDExample(qa.id, answer.text, start_position,
                                                 end_position, FALSE))
                /\ qa_index' = qa_index + 1
                /\ UNCHANGED <<pc, read_error>>
    /\ UNCHANGED <<read_is_training, read_version_2_with_negative, passage_text,
                   qas, paragraph_text, passage_doc_tokens, char_to_word_offset>>

\* line 189: return examples
ReadDone ==
    /\ UNCHANGED notReadVars
    /\ pc = "qa"
    /\ qa_index = Len(qas)
    /\ pc' = "read_done"
    /\ UNCHANGED readVars

NextRead == ReadPassage \/ ReadQa \/ ReadDone

SpecRead == InitRead /\ [][NextRead]_vars

\* ------------------------------------------------------------- claims: example reader
\* part occurs in whole
Contains(whole, part) == \E i \in 0..Len(whole) : OccursAt(whole, part, i)

\* the word span of the k-th QA pair's answer, from the char-to-word map at
\* offset and offset + len - 1
AnswerSpan(k) ==
    LET answer == qas[k].answers[1]
    IN  <<ListItem(char_to_word_offset, answer.start),
          ListItem(char_to_word_offset, answer.start + Len(answer.text) - 1)>>

\* the words of the k-th pair's span, joined by blanks, contain its answer text
\* with whitespace normalized
AnswerRecovered(k) ==
    Contains(JoinWords(ListSlice(passage_doc_tokens, AnswerSpan(k)[1],
                                 AnswerSpan(k)[2] + 1)),
             JoinWords(whitespace_tokenize(qas[k].answers[1].text)))

\* the k-th pair is read as impossible
ReadImpossible(k) == read_version_2_with_negative /\ qas[k].is_impossible

RECURSIVE ExpectedExamples(_)
\* the Examples the first n QA pairs are to yield
ExpectedExamples(n) ==
    IF n = 0 THEN <<>>
    ELSE LET before == ExpectedExamples(n - 1)
             qa == qas[n]
         IN  IF ~read_is_training
             THEN Append(before, ReCoRDExample(qa.id, None, None, None, FALSE))
             ELSE IF ReadImpossible(n)
             THEN Append(before, ReCoRDExample(qa.id, <<>>, -1, -1, TRUE))
             ELSE IF AnswerRecovered(n)
             THEN Append(before,
                         ReCoRDExample(qa.id, qa.answers[1].text, AnswerSpan(n)[1],
                                       AnswerSpan(n)[2], FALSE))
             ELSE before

\* C15: reading never raises; in training an answerable QA pair yields an
\* Example exactly when the blank-joined words of its span contain the
\* whitespace-normalized answer text, and is skipped otherwise; a pair read as
\* impossible yields an Example with span (-1, -1) and empty answer text; outside
\* training every pair yields one Example; the Examples are in dataset order.
C15_DropRule ==
    /\ pc # "read_raised"
    /\ pc \in {"qa", "read_done"} =>
          /\ examples = ExpectedExamples(qa_index)
          /\ \A i, j \in 1..Len(examples) :
                i < j => examples[i].qas_id < examples[j].qas_id
====
